---- MODULE Spec2Model ----
(***************************************************************************)
(* Model of src/src/parse/services/v3_1.ts: the extraction of services and *)
(* operations from an OpenAPI 3.1 document.                                *)
(*                                                                         *)
(* JavaScript values are encoded so that every field has one TLA+ type:    *)
(*   - an optional object or array is a sequence of length 0 (undefined)   *)
(*     or 1 (the value);                                                   *)
(*   - an optional string is the string itself, or Undefined / Null;       *)
(*   - an object used as a map is the sequence of its entries as declared; *)
(*     where array-index keys can occur (the status codes of `responses`)  *)
(*     ObjectEntries gives the order in which the object enumerates them;  *)
(*   - a string the code takes apart (a status-code key, a media type, a   *)
(*     $ref) is the sequence of its pieces.                                *)
(***************************************************************************)
EXTENDS Integers, Sequences, FiniteSets, TLC

VARIABLES
  pc,                 \* position of the walk over one path entry
  pathItem,           \* the raw `parameters` array of the path entry (v3_1.ts:32)
  pathParams,         \* getOperationParameters(doc, pathObject.parameters || [])
  method,             \* the method of the operation being built (v3_1.ts:44)
  op,                 \* the OperationObject being built (v3_1.ts:44)
  operationResponses, \* getOperation's local of that name (v3_1.ts:117)
  operation,          \* the Operation getOperation returned (v3_1.ts:49)
  content,            \* argument of a getContent call
  selected,           \* what that getContent call returned
  doc,                \* the document getServices is called on
  services,           \* the services made so far, the last one under way
  walk,               \* the tag, path entry and method the loops are at
  operationId,        \* argument of a getOperationName call
  operationName       \* what that getOperationName call returned

\* The state of the walk over a whole document.
walkVars == <<doc, services, walk>>

\* The state of a call of getOperationName.
nameVars == <<operationId, operationName>>

vars == <<pc, pathItem, pathParams, method, op, operationResponses, operation,
          content, selected, walkVars, nameVars>>

----------------------------------------------------------------------------
(* Bounds of the model.                                                    *)

MaxPathParams == 1   \* path-level parameters of a path entry
MaxOpParams == 2     \* parameters an operation declares
MaxResponses == 2    \* entries of an operation's responses
MaxKeyLen == 3       \* characters of a status-code key
MaxContent == 2      \* media types of a content map
MaxTags == 2         \* tags the document declares
MaxPaths == 1        \* entries of doc.paths
MaxNameLen == 3      \* characters of a declared identifier and of a path

\* The sequences over S of length at most n.
SeqsUpTo(S, n) == UNION {[1..k -> S] : k \in 0..n}

----------------------------------------------------------------------------
(* JavaScript values.                                                      *)

Undefined == "<undefined>"
Null == "<null>"

\* if (x), x || y on a string: undefined, null and "" are falsy.
Truthy(s) == s # Undefined /\ s # Null /\ s # ""

\* x || null
OrNull(s) == IF Truthy(s) THEN s ELSE Null

Last(s) == s[Len(s)]

RECURSIVE Flatten(_)
\* [].push(...a, ...b, ...): the concatenation of a sequence of sequences.
Flatten(ss) == IF ss = <<>> THEN <<>> ELSE Head(ss) \o Flatten(Tail(ss))

\* One step of a stable insertion sort: scanning from the right, x goes right
\* after the last element that does not compare greater than it.
\* `sorted` and x are positions of the array, compared[i][j] what the
\* comparator returns for the elements at i and j.
InsertSorted(sorted, x, compared) ==
  LET n == Len(sorted)
      stops == {j \in 0..n : \A k \in (j + 1)..n : compared[sorted[k]][x] > 0}
      at == CHOOSE j \in stops : \A i \in stops : j <= i
  IN  SubSeq(sorted, 1, at) \o <<x>> \o SubSeq(sorted, at + 1, n)

\* Array.prototype.sort(cmp): stable since ES2019 (package.json pins node 16);
\* with a consistent comparator every stable sort returns this sequence.
Sort(s, compared) ==
  LET sorted[k \in 0..Len(s)] ==
        IF k = 0 THEN <<>> ELSE InsertSorted(sorted[k - 1], k, compared)
  IN  [k \in 1..Len(s) |-> s[sorted[Len(s)][k]]]

----------------------------------------------------------------------------
(* What the collaborators outside this file return.  A schema fragment is  *)
(* written as what the Model Resolver makes of it: `model` is the          *)
(* descriptor getModel returns for it and `default` what getModelDefault   *)
(* returns for it; a $ref is the sequence of its path segments.            *)

NoRef == <<>>

Model(export, type, base, template, link, isRequired, default, imports) ==
  [export |-> export, type |-> type, base |-> base, template |-> template,
   link |-> link, isRequired |-> isRequired, default |-> default,
   imports |-> imports]

AnyModel == Model("generic", "any", "any", Null, <<>>, FALSE, Undefined, <<>>)

\* kind: "undefined" | "null" | "empty" (the string "") | "object"
Schema(kind, ref, model) == [kind |-> kind, ref |-> ref, model |-> model]

NoSchema == Schema("undefined", NoRef, AnyModel)

\* getType(ref): a named-type handle for the last segment of the pointer,
\* plus its import.
getType(ref) ==
  [type |-> Last(ref), base |-> Last(ref), template |-> Null,
   imports |-> <<Last(ref)>>]

\* getModel(openApi, "", schema)
getModel(schema) == schema.model

\* getModelDefault(schema)
getModelDefault(schema) == schema.model.default

\* if (schema): an absent, null or empty-string schema is falsy.
SchemaTruthy(schema) == schema.kind = "object"

\* isDefined(value): value !== undefined && value !== null && value !== ""
isDefined(schema) == schema.kind \notin {"undefined", "null", "empty"}

\* ref.startsWith("#/components/<section>/")
RefStartsWith(ref, section) ==
  Len(ref) >= 2 /\ ref[1] = "components" /\ ref[2] = section

----------------------------------------------------------------------------
(* The document's reusable components, and reference lookup.               *)

ParameterObject(ref, name, in, required, schema) ==
  [ref |-> ref, name |-> name, in |-> in, required |-> required,
   schema |-> schema]

InlineSchema(isRequired, default, imports) ==
  Schema("object", NoRef,
         Model("generic", "number", "number", Null, <<>>, isRequired, default,
               imports))

RefSchema(name, default) ==
  Schema("object", <<"components", "schemas", name>>,
         Model("reference", name, name, Null, <<>>, FALSE, default, <<name>>))

ComponentParameterNames == {"thread-id", "version"}

\* doc.components.parameters
ComponentsParameters ==
  [n \in ComponentParameterNames |->
     IF n = "thread-id"
     THEN ParameterObject(NoRef, "thread_id", "cookie", TRUE,
                          InlineSchema(FALSE, "1", <<>>))
     ELSE ParameterObject(NoRef, "api-version", "header", TRUE,
                          RefSchema("ApiVersion", Undefined))]

ParameterRef(n) ==
  ParameterObject(<<"components", "parameters", n>>, Undefined, Undefined,
                  FALSE, NoSchema)

\* getRef(doc, item) on an entry of a `parameters` array: the object a
\* reference points to, one level; anything else unchanged.
getRefParameter(item) ==
  IF item.ref # NoRef THEN ComponentsParameters[Last(item.ref)] ELSE item

----------------------------------------------------------------------------
(* Parameter Classifier.                                                   *)

\* getOperationParameterName(value) starts with value.replace(...): a
\* TypeError when the value is undefined or null.
getOperationParameterNameThrows(value) == value \in {Undefined, Null}

\* getOperationParameters(doc, parameters) throws when the name of one of the
\* definitions cannot be cleaned.
getOperationParametersThrows(parameters) ==
  \E i \in 1..Len(parameters) :
    getOperationParameterNameThrows(getRefParameter(parameters[i]).name)

OperationParameter(in, prop, export, type, base, template, link, isRequired, default, imports, mediaType) ==
  [in |-> in, prop |-> prop, export |-> export, type |-> type, base |-> base,
   template |-> template, link |-> link, isRequired |-> isRequired,
   default |-> default, imports |-> imports, mediaType |-> mediaType]

getOperationParameter(parameter) ==
  LET schema == parameter.schema
  IN  IF parameter.ref # NoRef
      THEN LET definitionRef == getType(parameter.ref)
           IN  OperationParameter(parameter.in, parameter.name, "reference",
                 definitionRef.type, definitionRef.base, definitionRef.template,
                 <<>>, parameter.required, Undefined, definitionRef.imports,
                 <<>>)
      ELSE IF ~SchemaTruthy(schema)
      THEN OperationParameter(parameter.in, parameter.name, "interface", "any",
             "any", Null, <<>>, parameter.required, Undefined, <<>>, <<>>)
      ELSE IF schema.ref # NoRef
      THEN LET m == getType(schema.ref)
           IN  OperationParameter(parameter.in, parameter.name, "reference",
                 m.type, m.base, m.template, <<>>, parameter.required,
                 getModelDefault(schema), m.imports, <<>>)
      ELSE LET m == getModel(schema)
           IN  OperationParameter(parameter.in, parameter.name, m.export,
                 m.type, m.base, m.template, m.link,
                 parameter.required \/ m.isRequired, m.default, m.imports,
                 <<>>)

OperationParameters(imports, parameters, parametersPath, parametersQuery, parametersForm, parametersCookie, parametersHeader, parametersBody) ==
  [imports |-> imports, parameters |-> parameters,
   parametersPath |-> parametersPath, parametersQuery |-> parametersQuery,
   parametersForm |-> parametersForm, parametersCookie |-> parametersCookie,
   parametersHeader |-> parametersHeader, parametersBody |-> parametersBody]

EmptyOperationParameters ==
  OperationParameters(<<>>, <<>>, <<>>, <<>>, <<>>, <<>>, <<>>, <<>>)

\* PushByLocation with the cookie case pushing to its bucket alone.
PushByLocationCookieBucketOnly(acc, parameter) ==
  LET pushed == [acc EXCEPT !.parameters = Append(@, parameter),
                            !.imports = @ \o parameter.imports]
  IN  CASE parameter.in = "path" ->
             [pushed EXCEPT !.parametersPath = Append(@, parameter)]
        [] parameter.in = "query" ->
             [pushed EXCEPT !.parametersQuery = Append(@, parameter)]
        [] parameter.in = "formData" ->
             [pushed EXCEPT !.parametersForm = Append(@, parameter)]
        [] parameter.in = "cookie" ->
             [acc EXCEPT !.parametersCookie = Append(@, parameter)]
        [] parameter.in = "header" ->
             [pushed EXCEPT !.parametersHeader = Append(@, parameter)]
        [] OTHER -> acc

\* The push of the matching case of the switch on parameter.in.
PushByLocation(acc, parameter) ==
  LET pushed == [acc EXCEPT !.parameters = Append(@, parameter),
                            !.imports = @ \o parameter.imports]
  IN  CASE parameter.in = "path" ->
             [pushed EXCEPT !.parametersPath = Append(@, parameter)]
        [] parameter.in = "query" ->
             [pushed EXCEPT !.parametersQuery = Append(@, parameter)]
        [] parameter.in = "formData" ->
             [pushed EXCEPT !.parametersForm = Append(@, parameter)]
        [] parameter.in = "cookie" ->
             [pushed EXCEPT !.parametersCookie = Append(@, parameter)]
        [] parameter.in = "header" ->
             [pushed EXCEPT !.parametersHeader = Append(@, parameter)]
        [] OTHER -> acc

\* The body of the forEach callback, without the "api-version" test.
ClassifyAnyName(acc, parameterOrReference) ==
  PushByLocation(acc, getOperationParameter(getRefParameter(parameterOrReference)))

\* The body of the forEach callback.
ClassifyParameter(acc, parameterOrReference) ==
  LET parameter == getOperationParameter(getRefParameter(parameterOrReference))
  IN  IF parameter.prop # "api-version"
      THEN PushByLocation(acc, parameter)
      ELSE acc

RECURSIVE ClassifyFrom(_, _)
ClassifyFrom(acc, parameters) ==
  IF parameters = <<>> THEN acc
  ELSE ClassifyFrom(ClassifyParameter(acc, Head(parameters)), Tail(parameters))

getOperationParameters(parameters) ==
  ClassifyFrom(EmptyOperationParameters, parameters)

----------------------------------------------------------------------------
(* Content Negotiator.  A media type is the sequence of its tokens: the    *)
(* type itself, ";" and " " where the string has them, and parameters;     *)
(* the empty sequence is the empty string.                                 *)

BASIC_MEDIA_TYPES ==
  {"application/json-patch+json", "application/json",
   "application/x-www-form-urlencoded", "text/json", "text/plain",
   "multipart/form-data", "multipart/mixed", "multipart/related",
   "multipart/batch"}

\* mediaType.split(";")[0]
SplitFirst(mediaType) ==
  LET semis == {i \in 1..Len(mediaType) : mediaType[i] = ";"}
  IN  IF semis = {} THEN mediaType
      ELSE SubSeq(mediaType, 1, (CHOOSE i \in semis : \A j \in semis : i <= j) - 1)

\* s.trim()
Trim(s) ==
  LET solid == {i \in 1..Len(s) : s[i] # " "}
  IN  IF solid = {} THEN <<>>
      ELSE SubSeq(s, CHOOSE i \in solid : \A j \in solid : i <= j,
                     CHOOSE i \in solid : \A j \in solid : i >= j)

IsBasicMediaType(mediaType) ==
  LET cleanMediaType == Trim(SplitFirst(mediaType))
  IN  Len(cleanMediaType) = 1 /\ cleanMediaType[1] \in BASIC_MEDIA_TYPES

\* array.find(test), given the elements passing the test in order: the first
\* of them, as a sequence of 0 or 1.
Find(passing) == IF passing = <<>> THEN <<>> ELSE <<Head(passing)>>

Content(mediaType, schema) == [mediaType |-> mediaType, schema |-> schema]

\* The filter on Object.keys(content): an object holds a key once, so a key
\* stands for its entry and content[mediaType] is that entry.
IsBasicEntry(entry) == IsBasicMediaType(entry.mediaType)

\* isDefined(content[mediaType]?.schema)
HasSchema(entry) == isDefined(entry.schema)

\* if (mediaType): a key was found, and it is not the empty string.
FoundKey(hit) == hit # <<>> /\ hit[1].mediaType # <<>>

\* The Content returned, as a sequence of 0 (null) or 1.
getContent(contentMap) ==
  LET basicMediaTypeWithSchema ==
        Find(SelectSeq(SelectSeq(contentMap, IsBasicEntry), HasSchema))
      firstMediaTypeWithSchema == Find(SelectSeq(contentMap, HasSchema))
  IN  IF FoundKey(basicMediaTypeWithSchema) THEN basicMediaTypeWithSchema
      ELSE IF FoundKey(firstMediaTypeWithSchema) THEN firstMediaTypeWithSchema
      ELSE <<>>

----------------------------------------------------------------------------
(* Request body.                                                           *)

RequestBodyObject(ref, required, contentMaps) ==
  [ref |-> ref, required |-> required, content |-> contentMaps]

ComponentRequestBodyNames == {"upload"}

\* doc.components.requestBodies
ComponentsRequestBodies ==
  [n \in ComponentRequestBodyNames |->
     RequestBodyObject(NoRef, FALSE,
       <<<<Content(<<"multipart/form-data">>,
                   RefSchema("Upload", Undefined))>>>>)]

\* getRef(doc, item) on op.requestBody
getRefRequestBody(item) ==
  IF item.ref # NoRef THEN ComponentsRequestBodies[Last(item.ref)] ELSE item

\* The switch on requestBody.mediaType.
BodyLocation(mediaType) ==
  IF mediaType \in {<<"application/x-www-form-urlencoded">>,
                    <<"multipart/form-data">>}
  THEN "formData" ELSE "body"

getOperationRequestBody(body) ==
  LET negotiated == IF body.content = <<>> THEN <<>>
                    ELSE getContent(body.content[1])
  IN  IF negotiated = <<>>
      THEN OperationParameter("body", "body", "interface", "any", "any", Null,
             <<>>, body.required, Undefined, <<>>, <<>>)
      ELSE LET c == negotiated[1]
               in == BodyLocation(c.mediaType)
           IN  IF c.schema.ref # NoRef
               THEN LET m == getType(c.schema.ref)
                    IN  OperationParameter(in, in, "reference", m.type, m.base,
                          m.template, <<>>, body.required, Undefined, m.imports,
                          <<c.mediaType>>)
               ELSE LET m == getModel(c.schema)
                    IN  OperationParameter(in, in, m.export, m.type, m.base,
                          m.template, m.link, body.required \/ m.isRequired,
                          Undefined, m.imports, <<c.mediaType>>)

----------------------------------------------------------------------------
(* Response Classifier.  A status-code key is the sequence of its          *)
(* characters.                                                             *)

DefaultKey == <<"d", "e", "f", "a", "u", "l", "t">>

Digits == {"0", "1", "2", "3", "4", "5", "6", "7", "8", "9"}

DigitValue(c) ==
  CASE c = "0" -> 0 [] c = "1" -> 1 [] c = "2" -> 2 [] c = "3" -> 3
    [] c = "4" -> 4 [] c = "5" -> 5 [] c = "6" -> 6 [] c = "7" -> 7
    [] c = "8" -> 8 [] c = "9" -> 9

\* /[0-9]+/g.test(value), on a fresh regular expression: some digit occurs.
HasDigit(value) == \E i \in 1..Len(value) : value[i] \in Digits

HexDigits == Digits \cup {"a", "b", "c", "d", "e", "f", "A", "B", "C", "D", "E", "F"}

HexDigitValue(c) ==
  CASE c \in Digits -> DigitValue(c)
    [] c \in {"a", "A"} -> 10 [] c \in {"b", "B"} -> 11 [] c \in {"c", "C"} -> 12
    [] c \in {"d", "D"} -> 13 [] c \in {"e", "E"} -> 14 [] c \in {"f", "F"} -> 15

\* The number a run of digits denotes in the radix.
DigitsValue(digits, radix) ==
  LET val[k \in 0..Len(digits)] ==
        IF k = 0 THEN 0 ELSE radix * val[k - 1] + HexDigitValue(digits[k])
  IN  val[Len(digits)]

\* The longest prefix of s made of characters of the set.
PrefixIn(s, set) ==
  LET stops == {i \in 1..Len(s) : s[i] \notin set}
  IN  IF stops = {} THEN s
      ELSE SubSeq(s, 1, (CHOOSE i \in stops : \A j \in stops : i <= j) - 1)

\* s without its leading white space.
TrimStart(s) ==
  LET solid == {i \in 1..Len(s) : s[i] # " "}
  IN  IF solid = {} THEN <<>>
      ELSE SubSeq(s, CHOOSE i \in solid : \A j \in solid : i <= j, Len(s))

\* The digits of an unsigned numeral: after 0x or 0X those of radix 16.
ParseUnsigned(unsigned, sign) ==
  IF Len(unsigned) >= 2 /\ unsigned[1] = "0" /\ unsigned[2] \in {"x", "X"}
  THEN LET run == PrefixIn(SubSeq(unsigned, 3, Len(unsigned)), HexDigits)
       IN  IF run = <<>> THEN <<>> ELSE <<sign * DigitsValue(run, 16)>>
  ELSE LET run == PrefixIn(unsigned, Digits)
       IN  IF run = <<>> THEN <<>> ELSE <<sign * DigitsValue(run, 10)>>

ParseSigned(s) ==
  IF s # <<>> /\ s[1] \in {"-", "+"}
  THEN ParseUnsigned(Tail(s), IF s[1] = "-" THEN -1 ELSE 1)
  ELSE ParseUnsigned(s, 1)

\* parseInt(value), no radix given: white space, an optional sign, an optional
\* 0x or 0X (then the radix is 16), then the longest run of digits of the
\* radix; NaN (the empty sequence) when that run is empty.
parseInt(value) == ParseSigned(TrimStart(value))

abs(n) == IF n < 0 THEN -n ELSE n

\* The code, or the empty sequence for null.
getOperationResponseCode(value) ==
  IF value = DefaultKey THEN <<200>>
  ELSE IF HasDigit(value)
       THEN LET code == parseInt(value)
            IN  IF code # <<>> THEN <<abs(code[1])>> ELSE <<>>
       ELSE <<>>

ResponseObject(ref, description, contentMaps, headers) ==
  [ref |-> ref, description |-> description, content |-> contentMaps,
   headers |-> headers]

ComponentResponseNames == {"not_modified"}

\* doc.components.responses
ComponentsResponses ==
  [n \in ComponentResponseNames |->
     ResponseObject(NoRef, "Not modified", <<>>, <<>>)]

\* getRef(doc, item) on an entry of op.responses
getRefResponse(item) ==
  IF item.ref # NoRef THEN ComponentsResponses[Last(item.ref)] ELSE item

\* getRef(doc, schema) on a content schema that points into
\* components/responses: the response object, which the Model Resolver then
\* reads as a schema without type.
getRefSchema(schema) == Schema("object", NoRef, AnyModel)

OperationResponse(in, name, code, description, export, type, base, template, link, imports) ==
  [in |-> in, name |-> name, code |-> code, description |-> description,
   export |-> export, type |-> type, base |-> base, template |-> template,
   link |-> link, imports |-> imports]

getOperationResponse(response, responseCode) ==
  LET description == OrNull(response.description)
      negotiated == IF response.content = <<>> THEN <<>>
                    ELSE getContent(response.content[1])
  IN  IF negotiated # <<>>
      THEN LET schema == IF RefStartsWith(negotiated[1].schema.ref, "responses")
                         THEN getRefSchema(negotiated[1].schema)
                         ELSE negotiated[1].schema
           IN  IF schema.ref # NoRef
               THEN LET m == getType(schema.ref)
                    IN  OperationResponse("response", "", responseCode,
                          description, "reference", m.type, m.base, m.template,
                          <<>>, m.imports)
               ELSE LET m == getModel(schema)
                    IN  OperationResponse("response", "", responseCode,
                          description, m.export, m.type, m.base, m.template,
                          m.link, m.imports)
      ELSE IF response.headers # <<>> /\ response.headers[1] # <<>>
      THEN OperationResponse("header", Head(response.headers[1]), responseCode,
             description, "generic", "string", "string", Null, <<>>, <<>>)
      ELSE OperationResponse("response", "", responseCode, description,
             "generic", "any", "any", Null, <<>>, <<>>)

\* The comparator of the sort of the classified responses.
CompareCode(a, b) == IF a.code < b.code THEN -1 ELSE IF a.code > b.code THEN 1 ELSE 0

\* The loop body: the descriptor of one entry, as a sequence of 0 or 1.
ClassifyResponse(entry) ==
  LET response == getRefResponse(entry.response)
      responseCode == getOperationResponseCode(entry.code)
  IN  IF responseCode # <<>> /\ responseCode[1] # 0
      THEN <<getOperationResponse(response, responseCode[1])>>
      ELSE <<>>

\* operationResponses.sort((a, b) => ...)
SortByCode(classified) ==
  Sort(classified,
       [i \in 1..Len(classified) |->
          [j \in 1..Len(classified) |->
             CompareCode(classified[i], classified[j])]])

\* A key Object.entries enumerates before the others, in ascending order: a
\* canonical array index.
IsIndexKey(key) ==
  /\ key # <<>>
  /\ \A i \in 1..Len(key) : key[i] \in Digits
  /\ (Len(key) > 1 => key[1] # "0")

IsIndexEntry(entry) == IsIndexKey(entry.code)

IsNamedEntry(entry) == ~IsIndexKey(entry.code)

\* The entries under array-index keys, ascending.
AscendingIndices(entries) ==
  Sort(entries,
       [i \in 1..Len(entries) |->
          [j \in 1..Len(entries) |->
             DigitsValue(entries[i].code, 10) - DigitsValue(entries[j].code, 10)]])

\* Object.entries(responses), given the entries as declared: the array-index
\* keys first, ascending, then the other keys as declared.
ObjectEntries(declared) ==
  AscendingIndices(SelectSeq(declared, IsIndexEntry))
    \o SelectSeq(declared, IsNamedEntry)

\* The loop: the descriptors of the entries, in their order.
ClassifyEach(entries) ==
  Flatten([i \in 1..Len(entries) |-> ClassifyResponse(entries[i])])

getOperationResponses(responses) ==
  SortByCode(ClassifyEach(ObjectEntries(responses)))

RECURSIVE areEqual(_, _)
areEqual(a, b) ==
  LET equal == a.type = b.type /\ a.base = b.base /\ a.template = b.template
  IN  IF equal /\ a.link # <<>> /\ b.link # <<>>
      THEN areEqual(a.link[1], b.link[1])
      ELSE equal

VoidResult ==
  OperationResponse("response", "", 200, "", "generic", "void", "void", Null,
                    <<>>, <<>>)

\* IsSuccess without the test for 204.
IsSuccessWith204(operationResponse) ==
  LET code == operationResponse.code
  IN  code # 0 /\ code >= 200 /\ code < 300

\* code && code !== 204 && code >= 200 && code < 300
IsSuccess(operationResponse) ==
  LET code == operationResponse.code
  IN  code # 0 /\ code # 204 /\ code >= 200 /\ code < 300

\* arr.findIndex(test): the first index passing, 0 for none (-1 in the code).
FindIndex(arr, operationResult) ==
  LET hits == {i \in 1..Len(arr) : areEqual(arr[i], operationResult)}
  IN  IF hits = {} THEN 0 ELSE CHOOSE i \in hits : \A j \in hits : i <= j

\* The final filter: an entry stays when it is the first one equal to it.
Dedup(arr) ==
  LET keep == {i \in 1..Len(arr) :
                 FindIndex(arr, arr[i]) = i}
      pick[k \in 0..Len(arr)] ==
        IF k = 0 THEN <<>>
        ELSE IF k \in keep THEN Append(pick[k - 1], arr[k]) ELSE pick[k - 1]
  IN  pick[Len(arr)]

getOperationResults(responses) ==
  LET success == SelectSeq(responses, IsSuccess)
  IN  Dedup(IF success = <<>> THEN <<VoidResult>> ELSE success)

OperationError(code, description) == [code |-> code, description |-> description]

\* IsError from 400 on.
IsErrorFrom400(operationResponse) ==
  operationResponse.code >= 400 /\ Truthy(operationResponse.description)

\* operationResponse.code >= 300 && operationResponse.description
IsError(operationResponse) ==
  operationResponse.code >= 300 /\ Truthy(operationResponse.description)

getOperationErrors(responses) ==
  LET kept == SelectSeq(responses, IsError)
  IN  [i \in 1..Len(kept) |-> OperationError(kept[i].code, kept[i].description)]

\* getOperationResponseHeader reading the first result, whatever it is in.
getOperationResponseHeaderOfFirst(results) ==
  IF results # <<>> THEN results[1].name ELSE Null

getOperationResponseHeader(results) ==
  LET header == Find(SelectSeq(results, LAMBDA result : result.in = "header"))
  IN  IF header # <<>> THEN header[1].name ELSE Null

----------------------------------------------------------------------------
(* Operation Builder.                                                      *)

OperationObject(parameters, requestBody, responses) ==
  [parameters |-> parameters, requestBody |-> requestBody,
   responses |-> responses]

\* sortByRequired with the test for a default left out.
sortByRequiredOnly(a, b) ==
  IF a.isRequired /\ ~b.isRequired THEN -1
  ELSE IF b.isRequired /\ ~a.isRequired THEN 1
  ELSE 0

sortByRequired(a, b) ==
  LET aNeedsValue == a.isRequired /\ a.default = Undefined
      bNeedsValue == b.isRequired /\ b.default = Undefined
  IN  IF aNeedsValue /\ ~bNeedsValue THEN -1
      ELSE IF bNeedsValue /\ ~aNeedsValue THEN 1
      ELSE 0

\* operation.parameters.sort(sortByRequired)
SortParameters(parameters) ==
  Sort(parameters,
       [i \in 1..Len(parameters) |->
          [j \in 1..Len(parameters) |-> sortByRequired(parameters[i], parameters[j])]])

\* method.toUpperCase()
toUpperCase(m) ==
  CASE m = "get" -> "GET" [] m = "post" -> "POST" [] m = "put" -> "PUT"
    [] m = "delete" -> "DELETE" [] m = "patch" -> "PATCH"
    [] m = "options" -> "OPTIONS" [] m = "head" -> "HEAD"

\* op.parameters classified, nothing when absent.
OwnParameters(o) ==
  IF o.parameters = <<>> THEN EmptyOperationParameters
  ELSE getOperationParameters(o.parameters[1])

\* The body parameter, as a sequence of 0 or 1.
RequestBodyOf(o) ==
  IF o.requestBody = <<>> THEN <<>>
  ELSE <<getOperationRequestBody(getRefRequestBody(o.requestBody[1]))>>

\* What the block under if (op.responses) computes: the classified responses
\* (the local operationResponses), the results, the errors and the header.
Classified(responses, results, errors, responseHeader) ==
  [responses |-> responses, results |-> results, errors |-> errors,
   responseHeader |-> responseHeader]

WithResults(responses, results) ==
  Classified(responses, results, getOperationErrors(responses),
             getOperationResponseHeader(results))

ClassifiedFrom(responses) == WithResults(responses, getOperationResults(responses))

ResponsesOf(o) ==
  IF o.responses = <<>> THEN Classified(<<>>, <<>>, <<>>, Null)
  ELSE ClassifiedFrom(getOperationResponses(o.responses[1]))

\* The Operation returned, with the local operationResponses beside it.
Assemble(url, m, inherited, own, requestBody, classified) ==
  [operationResponses |-> classified.responses,
   operation |->
     [method |-> toUpperCase(m),
      path |-> url,
      parameters |->
        SortParameters(inherited.parameters \o own.parameters \o requestBody),
      parametersPath |-> inherited.parametersPath \o own.parametersPath,
      parametersQuery |-> inherited.parametersQuery \o own.parametersQuery,
      parametersForm |-> inherited.parametersForm \o own.parametersForm,
      parametersHeader |-> inherited.parametersHeader \o own.parametersHeader,
      parametersCookie |-> inherited.parametersCookie \o own.parametersCookie,
      parametersBody |-> requestBody,
      imports |->
        own.imports
        \o Flatten([i \in 1..Len(requestBody) |-> requestBody[i].imports])
        \o Flatten([i \in 1..Len(classified.results) |->
                      classified.results[i].imports]),
      errors |-> classified.errors,
      results |-> classified.results,
      responseHeader |-> classified.responseHeader]]

\* pathParams after getOperation seeded the operation from it: with the lists
\* shared, what was pushed to the operation's lists, and their sort, would
\* show in pathParams.
InheritedShared(inherited, built) ==
  [inherited EXCEPT !.parameters = built.parameters,
                    !.parametersPath = built.parametersPath,
                    !.parametersQuery = built.parametersQuery,
                    !.parametersForm = built.parametersForm,
                    !.parametersHeader = built.parametersHeader,
                    !.parametersCookie = built.parametersCookie]

\* pathParams after getOperation seeded the operation from it: the spreads
\* [...pathParams.parameters] copy each list, so the pushes and the sort act on
\* the operation's own lists.
InheritedAfter(inherited, built) == inherited

getOperation(url, m, o, inherited) ==
  Assemble(url, m, inherited, OwnParameters(o), RequestBodyOf(o), ResponsesOf(o))

----------------------------------------------------------------------------
(* Operation names.  A string is the sequence of its characters.  The      *)
(* strings explored hold lower-case letters, "-", " ", "/", "{" and "}":   *)
(* no upper-case letter, digit, "_" or "." reaches camelCase, and no path  *)
(* spells {api-version}.                                                   *)

LowerCase ==
  <<"a", "b", "c", "d", "e", "f", "g", "h", "i", "j", "k", "l", "m", "n", "o",
    "p", "q", "r", "s", "t", "u", "v", "w", "x", "y", "z">>

UpperCase ==
  <<"A", "B", "C", "D", "E", "F", "G", "H", "I", "J", "K", "L", "M", "N", "O",
    "P", "Q", "R", "S", "T", "U", "V", "W", "X", "Y", "Z">>

\* [a-zA-Z]
IsLetter(c) == \E i \in 1..Len(LowerCase) : c = LowerCase[i] \/ c = UpperCase[i]

\* \w
IsWordCharacter(c) == IsLetter(c) \/ c \in Digits \/ c = "_"

\* c.toUpperCase()
UpperOf(c) ==
  IF \E i \in 1..Len(LowerCase) : c = LowerCase[i]
  THEN UpperCase[CHOOSE i \in 1..Len(LowerCase) : c = LowerCase[i]]
  ELSE c

\* c.toLowerCase()
LowerOf(c) ==
  IF \E i \in 1..Len(UpperCase) : c = UpperCase[i]
  THEN LowerCase[CHOOSE i \in 1..Len(UpperCase) : c = UpperCase[i]]
  ELSE c

toLowerCase(s) == [i \in 1..Len(s) |-> LowerOf(s[i])]

\* [_.\- ]
CaseSeparators == {"_", ".", "-", " "}

\* s without its longest prefix of characters of the set.
DropPrefixIn(s, set) == SubSeq(s, Len(PrefixIn(s, set)) + 1, Len(s))

RECURSIVE CamelFrom(_, _)
\* .replace(/[_.\- ]+(\w|$)/g, (_, p1) => p1.toUpperCase()) from position i
\* on: a run of separators goes, and the word character after it is put in
\* upper case; a run before any other character stays.
CamelFrom(s, i) ==
  IF i > Len(s) THEN <<>>
  ELSE IF s[i] \notin CaseSeparators THEN <<s[i]>> \o CamelFrom(s, i + 1)
  ELSE LET run == PrefixIn(SubSeq(s, i, Len(s)), CaseSeparators)
           next == i + Len(run)
       IN  IF next > Len(s) THEN <<>>
           ELSE IF IsWordCharacter(s[next])
           THEN <<UpperOf(s[next])>> \o CamelFrom(s, next + 1)
           ELSE run \o CamelFrom(s, next)

\* camelCase(input) of camelcase 5.3.1, on a string without upper-case
\* letters and digits: trimmed; empty and one-character strings as they are;
\* else the leading separators dropped, lower case, and the separator runs
\* folded into the upper case of what follows.
camelCase(input) ==
  IF Len(Trim(input)) <= 1 THEN toLowerCase(Trim(input))
  ELSE CamelFrom(toLowerCase(DropPrefixIn(Trim(input), CaseSeparators)), 1)

RECURSIVE Split(_, _)
\* s.split(separator)
Split(s, separator) ==
  IF \A i \in 1..Len(s) : s[i] # separator THEN <<s>>
  ELSE LET at == CHOOSE i \in 1..Len(s) :
                   s[i] = separator /\ \A j \in 1..(i - 1) : s[j] # separator
       IN  <<SubSeq(s, 1, at - 1)>> \o Split(SubSeq(s, at + 1, Len(s)), separator)

RECURSIVE DropLeadingNonLetters(_)
\* .replace(/^[^a-zA-Z]+/g, "")
DropLeadingNonLetters(s) ==
  IF s = <<>> \/ IsLetter(s[1]) THEN s ELSE DropLeadingNonLetters(Tail(s))

RECURSIVE DashRuns(_)
\* .replace(/[^\w-]+/g, "-"): every run of characters that are neither word
\* characters nor "-" becomes one "-".
DashRuns(s) ==
  IF s = <<>> THEN <<>>
  ELSE IF IsWordCharacter(s[1]) \/ s[1] = "-" THEN <<s[1]>> \o DashRuns(Tail(s))
  ELSE IF Len(s) > 1 /\ ~(IsWordCharacter(s[2]) \/ s[2] = "-") THEN DashRuns(Tail(s))
  ELSE <<"-">> \o DashRuns(Tail(s))

\* name.replace(/^[^a-zA-Z]+/g, "").replace(/[^\w-]+/g, "-").trim()
CleanName(s) == Trim(DashRuns(DropLeadingNonLetters(s)))

javascriptReservedWords ==
  { <<"b", "r", "e", "a", "k">>,
    <<"c", "a", "s", "e">>,
    <<"c", "a", "t", "c", "h">>,
    <<"c", "l", "a", "s", "s">>,
    <<"c", "o", "n", "s", "t">>,
    <<"c", "o", "n", "t", "i", "n", "u", "e">>,
    <<"d", "e", "b", "u", "g", "g", "e", "r">>,
    <<"d", "e", "f", "a", "u", "l", "t">>,
    <<"d", "e", "l", "e", "t", "e">>,
    <<"d", "o">>,
    <<"e", "l", "s", "e">>,
    <<"e", "x", "p", "o", "r", "t">>,
    <<"e", "x", "t", "e", "n", "d", "s">>,
    <<"f", "a", "l", "s", "e">>,
    <<"f", "i", "n", "a", "l", "l", "y">>,
    <<"f", "o", "r">>,
    <<"f", "u", "n", "c", "t", "i", "o", "n">>,
    <<"i", "f">>,
    <<"i", "m", "p", "o", "r", "t">>,
    <<"i", "n">>,
    <<"i", "n", "s", "t", "a", "n", "c", "e", "o", "f">>,
    <<"n", "e", "w">>,
    <<"n", "u", "l", "l">>,
    <<"r", "e", "t", "u", "r", "n">>,
    <<"s", "u", "p", "e", "r">>,
    <<"s", "w", "i", "t", "c", "h">>,
    <<"t", "h", "i", "s">>,
    <<"t", "h", "r", "o", "w">>,
    <<"t", "r", "u", "e">>,
    <<"t", "r", "y">>,
    <<"t", "y", "p", "e", "o", "f">>,
    <<"v", "a", "r">>,
    <<"v", "o", "i", "d">>,
    <<"w", "h", "i", "l", "e">>,
    <<"w", "i", "t", "h">>,
    <<"y", "i", "e", "l", "d">>,
    <<"l", "e", "t">>,
    <<"a", "w", "a", "i", "t">>,
    <<"e", "n", "u", "m">>,
    <<"i", "m", "p", "l", "e", "m", "e", "n", "t", "s">>,
    <<"i", "n", "t", "e", "r", "f", "a", "c", "e">>,
    <<"p", "a", "c", "k", "a", "g", "e">>,
    <<"p", "r", "i", "v", "a", "t", "e">>,
    <<"p", "r", "o", "t", "e", "c", "t", "e", "d">>,
    <<"p", "u", "b", "l", "i", "c">>,
    <<"s", "t", "a", "t", "i", "c">>,
    <<"a", "b", "s", "t", "r", "a", "c", "t">>,
    <<"b", "o", "o", "l", "e", "a", "n">>,
    <<"b", "y", "t", "e">>,
    <<"c", "h", "a", "r">>,
    <<"d", "o", "u", "b", "l", "e">>,
    <<"f", "i", "n", "a", "l">>,
    <<"f", "l", "o", "a", "t">>,
    <<"g", "o", "t", "o">>,
    <<"i", "n", "t">>,
    <<"l", "o", "n", "g">>,
    <<"n", "a", "t", "i", "v", "e">>,
    <<"s", "h", "o", "r", "t">>,
    <<"s", "y", "n", "c", "h", "r", "o", "n", "i", "z", "e", "d">>,
    <<"t", "h", "r", "o", "w", "s">>,
    <<"t", "r", "a", "n", "s", "i", "e", "n", "t">>,
    <<"v", "o", "l", "a", "t", "i", "l", "e">>,
    <<"a", "r", "g", "u", "m", "e", "n", "t", "s">>,
    <<"a", "s", "y", "n", "c">>,
    <<"e", "v", "a", "l">>,
    <<"g", "e", "t">>,
    <<"s", "e", "t">>,
    <<"a", "n", "y">>,
    <<"c", "o", "n", "s", "t", "r", "u", "c", "t", "o", "r">>,
    <<"d", "e", "c", "l", "a", "r", "e">>,
    <<"m", "o", "d", "u", "l", "e">>,
    <<"r", "e", "q", "u", "i", "r", "e">>,
    <<"n", "u", "m", "b", "e", "r">>,
    <<"s", "t", "r", "i", "n", "g">>,
    <<"o", "f">> }

isReservedWord(value) == value \in javascriptReservedWords

RECURSIVE RemovePlaceholders(_)
\* .replace(/{(.*?)}/g, ""): each "{" with a "}" after it goes, with
\* everything up to the nearest such "}".
RemovePlaceholders(s) ==
  IF s = <<>> THEN <<>>
  ELSE IF s[1] = "{" /\ \E j \in 2..Len(s) : s[j] = "}"
  THEN RemovePlaceholders(
         SubSeq(s, (CHOOSE j \in 2..Len(s) :
                      s[j] = "}" /\ \A k \in 2..(j - 1) : s[k] # "}") + 1,
                Len(s)))
  ELSE <<s[1]>> \o RemovePlaceholders(Tail(s))

\* .replace(/\//g, "-")
SlashesToDashes(s) == [i \in 1..Len(s) |-> IF s[i] = "/" THEN "-" ELSE s[i]]

\* The path without its placeholders, "/" as "-"; the first replace, of what
\* leads to {api-version}, finds nothing in the paths explored.
urlWithoutPlaceholders(url) == SlashesToDashes(RemovePlaceholders(url))

\* The method name, spelled out.
Spelled(m) ==
  CASE m = "get" -> <<"g", "e", "t">>
    [] m = "post" -> <<"p", "o", "s", "t">>
    [] m = "put" -> <<"p", "u", "t">>
    [] m = "delete" -> <<"d", "e", "l", "e", "t", "e">>
    [] m = "patch" -> <<"p", "a", "t", "c", "h">>
    [] m = "options" -> <<"o", "p", "t", "i", "o", "n", "s">>
    [] m = "head" -> <<"h", "e", "a", "d">>

\* The branch under if (isReservedWord(result)).
Disambiguated(result, m, operationIdSplit) ==
  IF Len(operationIdSplit) > 1
  THEN camelCase(result \o <<"-">> \o operationIdSplit[1])
  ELSE camelCase(Spelled(m) \o <<"-">> \o result)

\* The result of the branch under if (operationId).
NameOfResult(result, m, operationIdSplit) ==
  IF isReservedWord(result) THEN Disambiguated(result, m, operationIdSplit)
  ELSE result

\* The branch under if (operationId).
NameOfIdentifier(m, operationIdSplit) ==
  NameOfResult(camelCase(CleanName(Last(operationIdSplit))), m, operationIdSplit)

\* getOperationName(url, method, operationId), the identifier a sequence of
\* 0 (undefined) or 1 string.
getOperationName(url, m, id) ==
  IF id # <<>> /\ id[1] # <<>>
  THEN NameOfIdentifier(m, Split(id[1], "/"))
  ELSE camelCase(Spelled(m) \o <<"-">> \o urlWithoutPlaceholders(url))

----------------------------------------------------------------------------
(* The documents explored.                                                 *)

Methods == {"get", "post", "put", "delete", "patch", "options", "head"}

Paths == {"/notifications/threads/{thread_id}/subscription"}

\* Entries of a `parameters` array: one per location, an unrecognized
\* location, the version pin inline and by reference, with and without a
\* default, required by the parameter or by its schema.
ParameterEntries ==
  { ParameterObject(NoRef, "id", "path", TRUE, InlineSchema(FALSE, Undefined, <<>>)),
    ParameterObject(NoRef, "q", "query", FALSE, NoSchema),
    ParameterObject(NoRef, "X-Limit", "header", TRUE,
                    RefSchema("Limit", "10")),
    ParameterObject(NoRef, "file", "formData", FALSE,
                    InlineSchema(TRUE, Undefined, <<"File">>)),
    ParameterObject(NoRef, "payload", "body", TRUE, NoSchema),
    ParameterObject(NoRef, "api-version", "query", TRUE,
                    InlineSchema(FALSE, Undefined, <<"Version">>)),
    ParameterRef("thread-id"),
    ParameterRef("version") }

StringModel == Model("generic", "string", "string", Null, <<>>, FALSE, Undefined, <<>>)

NumberModel == Model("generic", "number", "number", Null, <<>>, FALSE, Undefined, <<>>)

\* string[]: the model of an array carries its items' type and links to them.
StringArrayModel ==
  Model("array", "string", "string", Null, <<StringModel>>, FALSE, Undefined, <<>>)

\* An array whose items are themselves linked: same type, another chain.
NestedArrayModel ==
  Model("array", "string", "string", Null,
        <<Model("array", "number", "number", Null, <<NumberModel>>, FALSE,
                Undefined, <<>>)>>,
        TRUE, Undefined, <<"Item">>)

\* Record<string, string>: a template, no link.
DictionaryModel ==
  Model("dictionary", "string", "string", "Record", <<>>, FALSE, Undefined, <<>>)

JsonOf(schema) == <<Content(<<"application/json">>, schema)>>

\* op.requestBody, as a sequence of 0 or 1.
RequestBodies ==
  { <<>>,
    <<RequestBodyObject(NoRef, TRUE, <<JsonOf(RefSchema("Pet", Undefined))>>)>>,
    <<RequestBodyObject(<<"components", "requestBodies", "upload">>, FALSE, <<>>)>> }

OkResponse == ResponseObject(NoRef, "OK", <<JsonOf(Schema("object", NoRef, StringModel))>>, <<>>)

Key(a, b, c) == <<a, b, c>>

ResponseEntry(code, response) == [code |-> code, response |-> response]

\* op.responses of the operations whose parameters are explored.
FewResponses == { <<<<ResponseEntry(Key("2", "0", "0"), OkResponse)>>>> }

\* Responses declared under a status code.
ResponseObjects ==
  { OkResponse,
    ResponseObject(NoRef, "", <<JsonOf(Schema("object", NoRef, StringArrayModel))>>, <<>>),
    ResponseObject(NoRef, "Nested", <<JsonOf(Schema("object", NoRef, NestedArrayModel))>>, <<>>),
    ResponseObject(NoRef, "Pet", <<JsonOf(RefSchema("Pet", Undefined))>>, <<>>),
    ResponseObject(NoRef, "Limited", <<>>, <<<<"X-RateLimit", "X-Other">>>>),
    ResponseObject(NoRef, Undefined, <<<<>>>>, <<<<"ETag">>>>),
    ResponseObject(NoRef, "Nothing", <<>>, <<<<>>>>),
    ResponseObject(<<"components", "responses", "not_modified">>, "ignored", <<>>, <<>>) }

ResponseKeys ==
  { Key("2", "0", "0"), Key("2", "0", "1"), Key("2", "0", "4"),
    Key("3", "0", "4"), Key("4", "0", "4"), DefaultKey }

\* The responses objects over some keys and response objects, their entries
\* as declared: no key twice.
ResponsesOver(keys, objects, n) ==
  { r \in SeqsUpTo({ResponseEntry(k, d) : k \in keys, d \in objects}, n) :
      \A i, j \in 1..Len(r) : i < j => r[i].code # r[j].code }

ResponsesObjects(keys, n) == ResponsesOver(keys, ResponseObjects, n)

\* Responses whose schema is a string, an array of strings, an array of
\* arrays.
LinkedResponses ==
  {ResponseObject(NoRef, "OK", <<JsonOf(Schema("object", NoRef, m))>>, <<>>) :
     m \in {StringModel, StringArrayModel, NestedArrayModel}}

SuccessKeys == {Key("2", "0", "0"), Key("2", "0", "1"), DefaultKey}

\* Every key of at most MaxKeyLen of these characters.
KeyCharacters == {"0", "2", "4", "X", "x", "-", " "}

StatusCodeKeys == SeqsUpTo(KeyCharacters, MaxKeyLen) \cup {DefaultKey}

MediaTypes ==
  { <<>>, <<"application/json">>, <<"text/xml">>,
    <<"application/json", ";", " ", "charset=utf-8">>,
    <<" ", "multipart/form-data", " ", ";", "boundary=x">>,
    <<"text/xml", ";", "application/json">> }

Schemas ==
  { NoSchema, Schema("null", NoRef, AnyModel), Schema("empty", NoRef, AnyModel),
    Schema("object", NoRef, StringModel), RefSchema("Pet", Undefined) }

ContentMaps ==
  { c \in SeqsUpTo({Content(t, x) : t \in MediaTypes, x \in Schemas}, MaxContent) :
      \A i, j \in 1..Len(c) : i < j => c[i].mediaType # c[j].mediaType }

----------------------------------------------------------------------------
(* The walk of getService over one path entry, and a call of getContent.   *)

PathItem(path, parameters) == [path |-> path, parameters |-> parameters]

NoOperation == OperationObject(<<>>, <<>>, <<>>)

\* getOperation(...) throws when classifying op.parameters does.
getOperationThrows(o) ==
  o.parameters # <<>> /\ getOperationParametersThrows(o.parameters[1])

\* v3_1.ts:32: the path-level parameters are classified once.
GetServicePath ==
  /\ pc = "path"
  /\ IF getOperationParametersThrows(pathItem.parameters)
     THEN pc' = "raised" /\ UNCHANGED pathParams
     ELSE /\ pathParams' = <<getOperationParameters(pathItem.parameters)>>
          /\ pc' = "method"
  /\ UNCHANGED <<pathItem, method, op, operationResponses, operation, content,
                 selected, walkVars, nameVars>>

\* v3_1.ts:44-53: the operation o declared under method m of the path is
\* built.
GetServiceOperation(m, o) ==
  /\ pc = "method"
  /\ method' = m
  /\ op' = o
  /\ IF getOperationThrows(o)
     THEN /\ pc' = "raised"
          /\ UNCHANGED <<operationResponses, operation, pathParams>>
     ELSE /\ \E built \in {getOperation(pathItem.path, m, o, pathParams[1])} :
               /\ operationResponses' = built.operationResponses
               /\ operation' = <<built.operation>>
               /\ pathParams' = <<InheritedAfter(pathParams[1], built.operation)>>
          /\ pc' = "built"
  /\ UNCHANGED <<pathItem, content, selected, walkVars, nameVars>>

\* A call of getOperationName, as getOperation makes it first (v3_1.ts:67).
GetOperationNameCall ==
  /\ pc = "name"
  /\ operationName' = <<getOperationName(pathItem.path, method, operationId)>>
  /\ pc' = "named"
  /\ UNCHANGED <<pathItem, pathParams, method, op, operationResponses,
                 operation, content, selected, walkVars, operationId>>

\* A call of getContent.
GetContentCall ==
  /\ pc = "content"
  /\ selected' = getContent(content)
  /\ pc' = "returned"
  /\ UNCHANGED <<pathItem, pathParams, method, op, operationResponses,
                 operation, content, walkVars, nameVars>>

----------------------------------------------------------------------------
(* The walk of getServices over a document: a service per tag, and for     *)
(* each the path entries and their methods.                                *)

\* Object.entries(operations): the methods in the order of the literal.
MethodOrder == <<"get", "post", "put", "delete", "patch", "options", "head">>

TagObject(tagName, description) == [name |-> tagName, description |-> description]

Service(serviceName, description, operations, imports) ==
  [name |-> serviceName, description |-> description, operations |-> operations,
   imports |-> imports]

\* An OperationObject with its `tags`: a sequence of 0 (absent) or 1 list.
Tagged(o, tags) ==
  [parameters |-> o.parameters, requestBody |-> o.requestBody,
   responses |-> o.responses, tags |-> tags]

\* A path item: its `parameters`, 0 or 1 list, and under each method 0 or 1
\* operation.
PathItemObject(parameters, operations) ==
  [parameters |-> parameters, operations |-> operations]

\* An entry of doc.paths: the path and 0 (no value) or 1 path item.
PathsEntry(path, value) == [path |-> path, value |-> value]

\* pathObject.parameters || []
ParametersOrNone(pathObject) ==
  IF pathObject.parameters = <<>> THEN <<>> ELSE pathObject.parameters[1]

\* service.operations.push(operation); service.imports.push(...operation.imports)
PushOperation(service, built) ==
  [service EXCEPT !.operations = Append(@, built),
                  !.imports = @ \o built.imports]

\* Skipped without the test of the tag list against the service.
SkippedWhenUntagged(o, service) == o = <<>> \/ o[1].tags = <<>>

\* !op || !op.tags || !op.tags.includes(service.name)
Skipped(o, service) ==
  \/ o = <<>>
  \/ o[1].tags = <<>>
  \/ \A i \in 1..Len(o[1].tags[1]) : o[1].tags[1][i] # service.name

\* v3_1.ts:15-17, 20-25: (doc.tags || []).map: the next tag starts a service,
\* and after the last one the list is returned.
GetServices ==
  /\ pc = "tags"
  /\ IF walk.tag > Len(doc.tags)
     THEN pc' = "done" /\ UNCHANGED <<services, walk>>
     ELSE /\ services' = Append(services,
                                Service(doc.tags[walk.tag].name,
                                        doc.tags[walk.tag].description, <<>>, <<>>))
          /\ walk' = [walk EXCEPT !.path = 1]
          /\ pc' = "paths"
  /\ UNCHANGED <<pathItem, pathParams, method, op, operationResponses,
                 operation, content, selected, doc, nameVars>>

\* v3_1.ts:27-32, 57: the next path entry: skipped without a value, else
\* its parameters are classified; after the last one the service is
\* returned.
GetServiceNextPath ==
  /\ pc = "paths"
  /\ IF walk.path > Len(doc.paths)
     THEN /\ walk' = [walk EXCEPT !.tag = @ + 1]
          /\ pc' = "tags"
          /\ UNCHANGED <<pathItem, pathParams>>
     ELSE IF doc.paths[walk.path].value = <<>>
     THEN /\ walk' = [walk EXCEPT !.path = @ + 1]
          /\ pc' = "paths"
          /\ UNCHANGED <<pathItem, pathParams>>
     ELSE /\ pathItem' = PathItem(doc.paths[walk.path].path,
                                  ParametersOrNone(doc.paths[walk.path].value[1]))
          /\ IF getOperationParametersThrows(pathItem'.parameters)
             THEN pc' = "raised" /\ UNCHANGED <<pathParams, walk>>
             ELSE /\ pathParams' = <<getOperationParameters(pathItem'.parameters)>>
                  /\ walk' = [walk EXCEPT !.method = 1]
                  /\ pc' = "methods"
  /\ UNCHANGED <<method, op, operationResponses, operation, content, selected,
                 doc, services, nameVars>>

\* The operation o under method m is built and pushed to the service.
GetServiceBuild(m, o) ==
  /\ method' = m
  /\ op' = o
  /\ IF getOperationThrows(o)
     THEN /\ pc' = "raised"
          /\ UNCHANGED <<operationResponses, operation, pathParams, services, walk>>
     ELSE /\ \E built \in {getOperation(pathItem.path, m, o, pathParams[1])} :
               /\ operationResponses' = built.operationResponses
               /\ operation' = <<built.operation>>
               /\ pathParams' = <<InheritedAfter(pathParams[1], built.operation)>>
               /\ services' = [services EXCEPT ![Len(services)] =
                                 PushOperation(@, built.operation)]
          /\ walk' = [walk EXCEPT !.method = @ + 1]
          /\ pc' = "methods"

\* v3_1.ts:44-54: the next method of the path entry: skipped when it has no
\* operation or the operation is not tagged with the service, else built;
\* after the last one the next path entry is due.
GetServiceNextMethod ==
  /\ pc = "methods"
  /\ IF walk.method > Len(MethodOrder)
     THEN /\ walk' = [walk EXCEPT !.path = @ + 1]
          /\ pc' = "paths"
          /\ UNCHANGED <<pathParams, method, op, operationResponses, operation,
                         services>>
     ELSE IF Skipped(doc.paths[walk.path].value[1].operations[MethodOrder[walk.method]],
                     services[Len(services)])
     THEN /\ walk' = [walk EXCEPT !.method = @ + 1]
          /\ pc' = "methods"
          /\ UNCHANGED <<pathParams, method, op, operationResponses, operation,
                         services>>
     ELSE GetServiceBuild(MethodOrder[walk.method],
            doc.paths[walk.path].value[1].operations[MethodOrder[walk.method]][1])
  /\ UNCHANGED <<pathItem, content, selected, doc, nameVars>>

\* No document is walked.
NoWalk ==
  /\ doc = [tags |-> <<>>, paths |-> <<>>]
  /\ services = <<>>
  /\ walk = [tag |-> 1, path |-> 1, method |-> 1]

\* getOperationName is not called.
NoName ==
  /\ operationId = <<>>
  /\ operationName = <<>>

\* Before the loop over the methods no operation is at hand.
InitWalk(pathItems) ==
  /\ pc = "path"
  /\ pathItem \in pathItems
  /\ pathParams = <<>>
  /\ method = Undefined
  /\ op = NoOperation
  /\ operationResponses = <<>>
  /\ operation = <<>>
  /\ content = <<>>
  /\ selected = <<>>
  /\ NoWalk
  /\ NoName

\* Operations with every shape of parameter list and request body.
ParameterOperations ==
  {OperationObject(ps, b, r) :
     ps \in {<<>>} \cup {<<l>> : l \in SeqsUpTo(ParameterEntries, MaxOpParams)},
     b \in RequestBodies, r \in FewResponses}

\* Operations with every shape of responses.
ResponseOperations ==
  {OperationObject(<<>>, <<>>, r) :
     r \in {<<>>} \cup {<<m>> : m \in ResponsesObjects(ResponseKeys, MaxResponses)}}

\* Operations with one response, under every status-code key.
CodeOperations ==
  {OperationObject(<<>>, <<>>, <<<<ResponseEntry(k, OkResponse)>>>>) :
     k \in StatusCodeKeys}

\* Operations with a request body of every content, inline or referenced.
BodyOperations ==
  {OperationObject(<<>>, <<b>>, <<>>) :
     b \in {RequestBodyObject(NoRef, r, c) :
              r \in BOOLEAN, c \in {<<>>} \cup {<<m>> : m \in ContentMaps}}
           \cup {RequestBodyObject(<<"components", "requestBodies", n>>, FALSE, <<>>) :
                   n \in ComponentRequestBodyNames}}

\* Operations with up to three successful responses of linked types.
ResultOperations ==
  {OperationObject(<<>>, <<>>, <<r>>) :
     r \in ResponsesOver(SuccessKeys, LinkedResponses, MaxResponses + 1)}

Init ==
  InitWalk({PathItem(p, l) : p \in Paths,
                             l \in SeqsUpTo(ParameterEntries, MaxPathParams)})

InitBare == InitWalk({PathItem(p, <<>>) : p \in Paths})

\* Calls of getContent on every content map.
InitContent ==
  /\ pc = "content"
  /\ pathItem = PathItem("", <<>>)
  /\ pathParams = <<>>
  /\ method = Undefined
  /\ op = NoOperation
  /\ operationResponses = <<>>
  /\ operation = <<>>
  /\ content \in ContentMaps
  /\ selected = <<>>
  /\ NoWalk
  /\ NoName

\* The loop over the methods of the path entry meets one of the operations.
GetServiceMethod(methods, operations) ==
  /\ pc = "method"
  /\ \E m \in methods, o \in operations : GetServiceOperation(m, o)

Next == GetServicePath \/ GetServiceMethod({"get", "post"}, ParameterOperations)

NextResponses ==
  GetServicePath \/ GetServiceMethod({"get", "delete"}, ResponseOperations)

NextCode == GetServicePath \/ GetServiceMethod(Methods, CodeOperations)

NextContent == GetContentCall

\* The characters of declared identifiers and of paths.
IdentifierCharacters == {"d", "o", "-", " ", "/"}

UrlCharacters == {"/", "{", "}", "d", "-"}

\* Calls of getOperationName: every identifier under "/" and get or delete,
\* every path without identifier under every method.
InitName ==
  /\ pc = "name"
  /\ \E call \in {<<<<"/">>, m, <<id>>>> :
                    m \in {"get", "delete"},
                    id \in SeqsUpTo(IdentifierCharacters, MaxNameLen)}
               \cup {<<url, m, <<>>>> :
                       m \in Methods, url \in SeqsUpTo(UrlCharacters, MaxNameLen)} :
       /\ pathItem = PathItem(call[1], <<>>)
       /\ method = call[2]
       /\ operationId = call[3]
  /\ operationName = <<>>
  /\ pathParams = <<>>
  /\ op = NoOperation
  /\ operationResponses = <<>>
  /\ operation = <<>>
  /\ content = <<>>
  /\ selected = <<>>
  /\ NoWalk

NextName == GetOperationNameCall

NextResults == GetServicePath \/ GetServiceMethod({"get"}, ResultOperations)

NextBody == GetServicePath \/ GetServiceMethod({"post", "put"}, BodyOperations)

\* Operations that differ in their parameters and request body.
Spec == Init /\ [][Next]_vars

\* Operations that differ in their responses.
SpecResponses == InitBare /\ [][NextResponses]_vars

\* Operations that differ in the status-code key of their response.
SpecCode == InitBare /\ [][NextCode]_vars

\* Calls of getContent.
SpecContent == InitContent /\ [][NextContent]_vars

\* Operations that differ in their successful responses.
SpecResults == InitBare /\ [][NextResults]_vars

\* Calls of getOperationName.
SpecName == InitName /\ [][NextName]_vars

\* Operations that differ in their request body.
SpecBody == InitBare /\ [][NextBody]_vars

\* doc.tags: declared tags, names possibly repeated.
TagNames == {"activity", "admin"}

\* The path of the entry at a position of doc.paths, as its pieces.
PathAt(j) == <<"/threads/", j>>

\* A tagged operation that declares one required parameter and a response.
OwnOperation(tags) ==
  Tagged(OperationObject(
           <<<<ParameterObject(NoRef, "id", "path", TRUE,
                               InlineSchema(FALSE, Undefined, <<"Id">>))>>>>,
           <<>>,
           <<<<ResponseEntry(Key("2", "0", "0"),
                 ResponseObject(NoRef, "OK",
                   <<JsonOf(RefSchema("Thread", Undefined))>>, <<>>))>>>>),
         tags)

\* A tagged operation that declares a request body and nothing else.
BodyOperation(tags) ==
  Tagged(OperationObject(<<>>,
           <<RequestBodyObject(NoRef, TRUE, <<JsonOf(RefSchema("Pet", Undefined))>>)>>,
           <<>>),
         tags)

\* What a method of a path item holds: nothing, an operation without tags,
\* with no tag, with one tag, with two.
TaggedOperations ==
  { <<>>,
    <<BodyOperation(<<>>)>>,
    <<OwnOperation(<<<<"activity">>>>)>>,
    <<BodyOperation(<<<<"admin", "activity">>>>)>> }

\* The path items: operations under get and head, with and without
\* path-level parameters.
PathItemObjects ==
  {PathItemObject(ps, [m \in Methods |-> IF m = "get" THEN g
                                         ELSE IF m = "head" THEN h ELSE <<>>]) :
     ps \in {<<>>, <<<<ParameterObject(NoRef, "X-Limit", "header", TRUE,
                                       RefSchema("Limit", "10"))>>>>},
     g \in TaggedOperations,
     h \in {<<>>, <<OwnOperation(<<<<"admin", "activity">>>>)>>}}

\* doc.paths with each entry under the path of its position.
PathsObjects(values, n) ==
  UNION {{[j \in 1..k |-> PathsEntry(PathAt(j), v[j])] : v \in [1..k -> values]} :
           k \in 0..n}

\* A document is at hand and getServices is entered.
InitDocument(documents) ==
  /\ pc = "tags"
  /\ doc \in documents
  /\ services = <<>>
  /\ walk = [tag |-> 1, path |-> 1, method |-> 1]
  /\ pathItem = PathItem("", <<>>)
  /\ pathParams = <<>>
  /\ method = Undefined
  /\ op = NoOperation
  /\ operationResponses = <<>>
  /\ operation = <<>>
  /\ content = <<>>
  /\ selected = <<>>
  /\ NoName

InitServices ==
  InitDocument(
    {[tags |-> t, paths |-> ps] :
       t \in SeqsUpTo({TagObject(n, Undefined) : n \in TagNames}, MaxTags),
       ps \in PathsObjects({<<>>} \cup {<<v>> : v \in PathItemObjects}, MaxPaths)})

\* A parameter definition without a name.
Nameless == ParameterObject(NoRef, Undefined, "query", FALSE, NoSchema)

\* Incomplete operations: nothing declared, a parameter without a name, a
\* response without description, content and headers.
IncompleteOperations ==
  {Tagged(o, <<<<"activity">>>>) :
     o \in {NoOperation,
            OperationObject(<<<<Nameless>>>>, <<>>, <<>>),
            OperationObject(<<>>, <<>>,
              <<<<ResponseEntry(Key("2", "0", "0"),
                                ResponseObject(NoRef, Undefined, <<>>, <<>>))>>>>)}}

\* Incomplete path items: no parameters, an empty list, a parameter without
\* a name; under get no operation or an incomplete one.
IncompletePathItems ==
  {PathItemObject(ps, [m \in Methods |-> IF m = "get" THEN g ELSE <<>>]) :
     ps \in {<<>>, <<<<>>>>, <<<<Nameless>>>>},
     g \in {<<>>} \cup {<<o>> : o \in IncompleteOperations}}

InitIncomplete ==
  InitDocument(
    {[tags |-> t, paths |-> ps] :
       t \in SeqsUpTo({TagObject(n, Undefined) : n \in TagNames}, MaxTags),
       ps \in PathsObjects({<<>>} \cup {<<v>> : v \in IncompletePathItems}, MaxPaths)})

NextServices == GetServices \/ GetServiceNextPath \/ GetServiceNextMethod

\* getServices on documents that differ in their tags and path items.
SpecServices == InitServices /\ [][NextServices]_vars

\* getServices on malformed and incomplete documents.
SpecIncomplete == InitIncomplete /\ [][NextServices]_vars

----------------------------------------------------------------------------
(* Properties of the built operation.                                      *)

Built == pc = "built"

Range(s) == {s[i] : i \in 1..Len(s)}

Count(s, v) == Cardinality({i \in 1..Len(s) : s[i] = v})

Locations == {"path", "query", "formData", "cookie", "header"}

NeedsValue(p) == p.isRequired /\ p.default = Undefined

HasFallback(p) == ~NeedsValue(p)

IsVersionPin(p) == p.prop = "api-version"

\* The parameters a raw list declares, references followed.
Declared(raw) == [i \in 1..Len(raw) |-> getOperationParameter(getRefParameter(raw[i]))]

Emitted(p) == p.in \in Locations /\ ~IsVersionPin(p)

DeclaredByPath == Declared(pathItem.parameters)

DeclaredByOperation ==
  IF op.parameters = <<>> THEN <<>> ELSE Declared(op.parameters[1])

\* The parameters in the order they are met: path level, operation level,
\* request body.
PreSortOrder ==
  SelectSeq(DeclaredByPath, Emitted) \o SelectSeq(DeclaredByOperation, Emitted)
  \o operation[1].parametersBody

Buckets(o) ==
  o.parametersPath \o o.parametersQuery \o o.parametersForm
  \o o.parametersHeader \o o.parametersCookie

\* C1: every built operation has at least one entry in `results`, also when
\* it declares no responses.
C1_ResultsNeverEmpty == Built => Len(operation[1].results) >= 1

\* C2: in `parameters` no parameter that is required and has no default
\* comes after one that is optional or has a default, and each of the two
\* groups keeps the order in which its parameters were met: path level,
\* operation level in declaration order, request body.
C2_RequiredFirstStable ==
  Built =>
    LET ps == operation[1].parameters
    IN  /\ \A i, j \in 1..Len(ps) : (i < j /\ NeedsValue(ps[j])) => NeedsValue(ps[i])
        /\ SelectSeq(ps, NeedsValue) = SelectSeq(PreSortOrder, NeedsValue)
        /\ SelectSeq(ps, HasFallback) = SelectSeq(PreSortOrder, HasFallback)

\* The sort moved a parameter: a required body and a required operation-level
\* parameter went before an optional path-level one, in the order met.
C2_Witness ==
  /\ Built
  /\ operation[1].parameters # PreSortOrder
  /\ Len(SelectSeq(operation[1].parameters, NeedsValue)) >= 2
  /\ Len(SelectSeq(operation[1].parameters, HasFallback)) >= 2
  /\ operation[1].parametersBody # <<>>
  /\ NeedsValue(operation[1].parametersBody[1])
  /\ pathParams[1].parameters # <<>>

\* C3: `parameters` holds exactly the elements of the five buckets plus the
\* body parameter when there is one, each as often; a bucket holds only
\* parameters of its location; a declared parameter of an unrecognized
\* location is in no bucket and not in `parameters`.
C3_ParametersAreTheBuckets ==
  Built =>
    LET o == operation[1]
        all == Buckets(o) \o o.parametersBody
    IN  /\ \A v \in Range(o.parameters) \cup Range(all) :
             Count(o.parameters, v) = Count(all, v)
        /\ \A p \in Range(o.parametersPath) : p.in = "path"
        /\ \A p \in Range(o.parametersQuery) : p.in = "query"
        /\ \A p \in Range(o.parametersForm) : p.in = "formData"
        /\ \A p \in Range(o.parametersHeader) : p.in = "header"
        /\ \A p \in Range(o.parametersCookie) : p.in = "cookie"
        /\ \A p \in Range(DeclaredByPath) \cup Range(DeclaredByOperation) :
             p.in \notin Locations => p \notin Range(o.parameters) \cup Range(all)

\* Three buckets and the body are filled, a parameter occurs twice, and a
\* parameter of an unrecognized location was declared.
C3_Witness ==
  /\ Built
  /\ operation[1].parametersBody # <<>>
  /\ Len(operation[1].parameters) = 3
  /\ \E v \in Range(operation[1].parameters) : Count(operation[1].parameters, v) = 2
  /\ \E p \in Range(DeclaredByOperation) : p.in \notin Locations

\* The imports of the declared parameters named "api-version".
PinnedImports ==
  UNION {Range(p.imports) :
           p \in {q \in Range(DeclaredByPath) \cup Range(DeclaredByOperation) :
                    IsVersionPin(q)}}

\* C4: no parameter whose prop is "api-version" is in `parameters`, in a
\* bucket or the body parameter, of the path-level classification or of the
\* operation, declared inline or by reference; its imports are not among the
\* imports.
C4_VersionPinDropped ==
  /\ pathParams # <<>> =>
       /\ \A p \in Range(pathParams[1].parameters) \cup Range(Buckets(pathParams[1])) :
            ~IsVersionPin(p)
       /\ pathParams[1].imports =
            Flatten([i \in 1..Len(pathParams[1].parameters) |->
                       pathParams[1].parameters[i].imports])
  /\ Built =>
       /\ \A p \in Range(operation[1].parameters) \cup Range(Buckets(operation[1]))
                   \cup Range(operation[1].parametersBody) : ~IsVersionPin(p)
       /\ PinnedImports \cap Range(operation[1].imports) = {}

\* The pin was declared at path level by reference and at operation level
\* inline, with imports, beside a parameter that is kept.
C4_Witness ==
  /\ Built
  /\ \E p \in Range(DeclaredByPath) : IsVersionPin(p) /\ p.in = "header"
  /\ \E p \in Range(DeclaredByOperation) : IsVersionPin(p) /\ p.in = "query"
  /\ "Version" \in PinnedImports
  /\ operation[1].parametersPath # <<>>

----------------------------------------------------------------------------
(* Properties of the classified responses.                                 *)

Declares == Built /\ op.responses # <<>>

\* A code in [200, 300) other than 204.
InSuccessRange(r) == r.code >= 200 /\ r.code < 300 /\ r.code # 204

Successes == SelectSeq(operationResponses, InSuccessRange)

\* The elements of s at the indices of `keep`, in order.
Pick(s, keep) ==
  LET pick[k \in 0..Len(s)] ==
        IF k = 0 THEN <<>>
        ELSE IF k \in keep THEN Append(pick[k - 1], s[k]) ELSE pick[k - 1]
  IN  pick[Len(s)]

\* s without each element at a position that `repeats` a smaller one.
FirstOfEach(s, repeats) ==
  Pick(s, {i \in 1..Len(s) : \A j \in 1..(i - 1) : <<j, i>> \notin repeats})

\* The pairs of positions of s.
Pairs(s) == (1..Len(s)) \X (1..Len(s))

\* The type, base and template of a descriptor and of the descriptors it
\* links to, outermost first.
Chain(m) ==
  LET level(x) == <<x.type, x.base, x.template>>
      at[k \in 1..3] == IF k = 1 THEN <<m>>
                        ELSE IF at[k - 1] = <<>> THEN <<>> ELSE at[k - 1][1].link
  IN  Flatten([k \in 1..3 |-> IF at[k] = <<>> THEN <<>> ELSE <<level(at[k][1])>>])

\* Identical type, base and template, and link chains equal or absent on both
\* sides.
SameDescriptor(a, b) == Chain(a) = Chain(b)

\* The chains agree as far as both go.
AgreeWhileLinked(a, b) ==
  \A k \in 1..Len(Chain(a)) : k <= Len(Chain(b)) => Chain(a)[k] = Chain(b)[k]

\* C5, as claimed: the results are exactly the responses with a code in
\* [200, 300) other than 204, in order, or the one synthetic void entry when
\* there is none.
C5_ExactlyTheSuccesses ==
  Declares =>
    operation[1].results =
      IF Successes = <<>> THEN <<VoidResult>> ELSE Successes

\* C5, amended: the results are the responses with a code in [200, 300) other
\* than 204, in order, without each one whose type, base and template agree
\* with those of an earlier such response along the links both have; when no
\* response has such a code, the one synthetic entry: code 200, in
\* "response", empty name, type and base "void".
C5_SuccessesFirstOfEach ==
  Declares =>
    operation[1].results =
      IF Successes = <<>>
      THEN <<[in |-> "response", name |-> "", code |-> 200, description |-> "",
              export |-> "generic", type |-> "void", base |-> "void",
              template |-> Null, link |-> <<>>, imports |-> <<>>]>>
      ELSE FirstOfEach(Successes,
                       {p \in Pairs(Successes) :
                          AgreeWhileLinked(Successes[p[1]], Successes[p[2]])})

\* Two successes were classified and the second was dropped as a repeat of
\* the first.
C5_Witness ==
  /\ Declares
  /\ Len(Successes) = 2
  /\ Len(operation[1].results) = 1

\* The synthetic entry stands in for responses none of which is a success.
C5_WitnessVoid ==
  /\ Declares
  /\ Len(operationResponses) = 2
  /\ \E r \in Range(operationResponses) : r.code = 204
  /\ operation[1].results = <<VoidResult>>

\* C6: two results collapse to the first one exactly when their type, base
\* and template are identical and their link chains are equal or absent on
\* both sides; an entry with a link does not collapse with an otherwise
\* identical one without.
C6_CollapseOnlyIdentical ==
  (Declares /\ Successes # <<>>) =>
    operation[1].results =
      FirstOfEach(Successes,
                  {p \in Pairs(Successes) :
                     SameDescriptor(Successes[p[1]], Successes[p[2]])})

\* C7: the errors are, in the order of the classified responses, one
\* {code, description} pair for every response with a code of 300 or more and
\* a non-empty description, and nothing else.
C7_ErrorsAreDescribedFailures ==
  Declares =>
    LET failed == SelectSeq(operationResponses,
                     LAMBDA r : r.code >= 300
                                /\ r.description \notin {Undefined, Null, ""})
    IN  operation[1].errors =
          [i \in 1..Len(failed) |->
             [code |-> failed[i].code, description |-> failed[i].description]]

\* A described 304 is an error; a 404 without description is not.
C7_Witness ==
  /\ Declares
  /\ Len(operationResponses) = 2
  /\ operationResponses[2].code = 404
  /\ operation[1].errors = <<[code |-> 304, description |-> "Not modified"]>>

\* The status-code key of the one response of the operation.
TheKey == op.responses[1][1].code

AllDigits(key) == key # <<>> /\ \A i \in 1..Len(key) : key[i] \in Digits

\* C8: the key "default" yields code 200, a key of one or more decimal
\* digits its numeric value, and every other key no response descriptor.
C8_KeysParsed ==
  (Declares /\ Len(op.responses[1]) = 1) =>
    IF TheKey = DefaultKey
    THEN Len(operationResponses) = 1 /\ operationResponses[1].code = 200
    ELSE IF AllDigits(TheKey)
    THEN /\ Len(operationResponses) = 1
         /\ operationResponses[1].code = DigitsValue(TheKey, 10)
    ELSE operationResponses = <<>>

\* The responses declared without content and with at least one header,
\* references followed, each with the code of its key; a key without a code,
\* or with code 0, has no descriptor.
HeaderOnly ==
  {e \in {[code |-> getOperationResponseCode(op.responses[1][i].code),
           response |-> getRefResponse(op.responses[1][i].response)] :
            i \in 1..Len(op.responses[1])} :
     /\ e.code # <<>>
     /\ e.code[1] # 0
     /\ e.response.content = <<>>
     /\ e.response.headers # <<>>
     /\ e.response.headers[1] # <<>>}

\* The descriptor of a response that only declares headers.
IsHeaderDescriptor(r, e) ==
  /\ r.code = e.code[1]
  /\ r.in = "header"
  /\ r.name = Head(e.response.headers[1])
  /\ r.type = "string"
  /\ r.base = "string"

\* C9, as claimed: a response without content and with headers is described
\* as in "header", named after its first header, of type and base "string",
\* and the operation's responseHeader is that name; without a result in
\* "header" the responseHeader is null.
C9_HeaderIsResponseHeader ==
  Declares =>
    /\ \A e \in HeaderOnly :
         /\ \E r \in Range(operationResponses) : IsHeaderDescriptor(r, e)
         /\ operation[1].responseHeader = Head(e.response.headers[1])
    /\ (\A r \in Range(operation[1].results) : r.in # "header")
         => operation[1].responseHeader = Null

\* C9, amended: the descriptor is as claimed; the operation's responseHeader
\* is the name of the first of its results that is in "header", and null
\* when none is.
C9_FirstHeaderResult ==
  Declares =>
    LET results == operation[1].results
        headers == {i \in 1..Len(results) : results[i].in = "header"}
    IN  /\ \A e \in HeaderOnly :
             \E r \in Range(operationResponses) : IsHeaderDescriptor(r, e)
        /\ operation[1].responseHeader =
             IF headers = {} THEN Null
             ELSE results[CHOOSE i \in headers : \A j \in headers : i <= j].name

\* A response that only declares headers is the second result, and its first
\* header is the responseHeader.
C9_Witness ==
  /\ Declares
  /\ HeaderOnly # {}
  /\ Len(operation[1].results) = 2
  /\ operation[1].results[2].in = "header"
  /\ operation[1].responseHeader = "X-RateLimit"

----------------------------------------------------------------------------
(* Properties of the content negotiator.                                   *)

\* C10: the selected content is the first declared media type that is on the
\* allow-list (its `;` suffix stripped) and carries a non-empty schema; when
\* there is none, the first declared media type carrying a non-empty schema;
\* null exactly when no declared media type carries one. The schema returned
\* is the one declared under the media type returned.
C10_FirstBasicElseFirst ==
  pc = "returned" =>
    LET withSchema == SelectSeq(content, LAMBDA e : isDefined(e.schema))
        basic == SelectSeq(withSchema, IsBasicEntry)
    IN  selected = IF basic # <<>> THEN <<Head(basic)>>
                   ELSE IF withSchema # <<>> THEN <<Head(withSchema)>>
                   ELSE <<>>

----------------------------------------------------------------------------
(* Properties of the body parameter.                                       *)

\* The media type negotiated for the request body of the operation, as a
\* sequence of 0 or 1.
Negotiated ==
  LET body == getRefRequestBody(op.requestBody[1])
      chosen == IF body.content = <<>> THEN <<>> ELSE getContent(body.content[1])
  IN  IF chosen = <<>> THEN <<>> ELSE <<chosen[1].mediaType>>

\* Form-encoded or one of the allow-listed multipart variants, with or
\* without a parameter suffix.
IsFormOrMultipart(mediaType) ==
  LET clean == Trim(SplitFirst(mediaType))
  IN  /\ Len(clean) = 1
      /\ clean[1] \in {"application/x-www-form-urlencoded", "multipart/form-data",
                       "multipart/mixed", "multipart/related", "multipart/batch"}

\* C11: the body parameter is in "formData", and so named, when the
\* negotiated media type is form-encoded or multipart, with or without a
\* parameter suffix; otherwise, and when nothing is negotiated, it is in
\* "body" and so named. Either way it is in `parameters` and is the
\* parametersBody.
C11_FormBodiesAreFormData ==
  (Built /\ op.requestBody # <<>>) =>
    LET where == IF Negotiated # <<>> /\ IsFormOrMultipart(Negotiated[1])
                 THEN "formData" ELSE "body"
    IN  /\ Len(operation[1].parametersBody) = 1
        /\ operation[1].parametersBody[1].in = where
        /\ operation[1].parametersBody[1].prop = where
        /\ operation[1].parametersBody[1] \in Range(operation[1].parameters)

----------------------------------------------------------------------------
(* Properties of the services.                                             *)

Returned == pc = "done"

\* The operation declared under a method of the path entry at a position, as
\* a sequence of 0 or 1.
DeclaredAt(j, m) ==
  IF doc.paths[j].value = <<>> THEN <<>> ELSE doc.paths[j].value[1].operations[m]

\* The tag list of the operation includes the name.
TaggedWith(o, tagName) ==
  /\ o # <<>>
  /\ o[1].tags # <<>>
  /\ \E i \in 1..Len(o[1].tags[1]) : o[1].tags[1][i] = tagName

\* The positions at which a service holds the operation of a path and method.
Appearances(service, j, m) ==
  {k \in 1..Len(service.operations) :
     /\ service.operations[k].path = PathAt(j)
     /\ service.operations[k].method = toUpperCase(m)}

\* C12: getServices returns one service per declared tag, in the order of the
\* tags; the operation of a path and method is in the service of a tag once
\* when its tag list includes the name of the tag, and not at all otherwise.
C12_OneServicePerTag ==
  Returned =>
    /\ Len(services) = Len(doc.tags)
    /\ \A t \in 1..Len(doc.tags) :
         /\ services[t].name = doc.tags[t].name
         /\ \A j \in 1..Len(doc.paths), m \in Methods :
              Cardinality(Appearances(services[t], j, m)) =
                IF TaggedWith(DeclaredAt(j, m), doc.tags[t].name) THEN 1 ELSE 0
         /\ \A k \in 1..Len(services[t].operations) :
              \E j \in 1..Len(doc.paths), m \in Methods :
                k \in Appearances(services[t], j, m)

\* Two tags were declared; the operation carrying both is in each of the two
\* services once, and the operation without tags in neither.
C12_Witness ==
  /\ Returned
  /\ Len(doc.tags) = 2
  /\ doc.tags[1].name # doc.tags[2].name
  /\ Len(doc.paths) = 1
  /\ DeclaredAt(1, "get") # <<>>
  /\ DeclaredAt(1, "get")[1].tags = <<>>
  /\ TaggedWith(DeclaredAt(1, "head"), "admin")
  /\ TaggedWith(DeclaredAt(1, "head"), "activity")
  /\ \A t \in 1..2 : Len(services[t].operations) = 1

\* The imports of the entries of a list, as a set.
ImportsOf(entries) == UNION {Range(entries[i].imports) : i \in 1..Len(entries)}

\* C13: the imports of an operation contain the imports of every parameter
\* of its `parameters`, those inherited from the path included, of its body
\* parameter and of every result; the imports of a service are its
\* operations' imports, concatenated in the order of the operations.
C13_ImportsCoverEverything ==
  \A t \in 1..Len(services) :
    /\ \A k \in 1..Len(services[t].operations) :
         LET o == services[t].operations[k]
         IN  ImportsOf(o.parameters) \cup ImportsOf(o.parametersBody)
               \cup ImportsOf(o.results) \subseteq Range(o.imports)
    /\ services[t].imports =
         Flatten([k \in 1..Len(services[t].operations) |->
                    services[t].operations[k].imports])

\* The operations the service under way holds for the path entry at hand.
BuiltHere ==
  SelectSeq(services[Len(services)].operations,
            LAMBDA o : o.path = pathItem.path)

\* C17: the path-level parameters are classified once per path entry and
\* building the operation of a method leaves them as they were classified, the
\* flat list and the five buckets, so the operation of every method under
\* the path starts from them.
C17_InheritedUntouched ==
  pc = "methods" =>
    /\ pathParams = <<getOperationParameters(pathItem.parameters)>>
    /\ \A k \in 1..Len(BuiltHere) :
         /\ Range(pathParams[1].parameters) \subseteq Range(BuiltHere[k].parameters)
         /\ SubSeq(BuiltHere[k].parametersHeader, 1,
                   Len(pathParams[1].parametersHeader))
              = pathParams[1].parametersHeader

\* Two operations were built under a path entry with a path-level parameter:
\* the first put its body before the inherited parameter, the second its own
\* parameter, and neither shows in the other or in the inherited list.
C17_Witness ==
  /\ pc = "methods"
  /\ Len(pathParams[1].parameters) = 1
  /\ Len(BuiltHere) = 2
  /\ Len(BuiltHere[1].parameters) = 2
  /\ BuiltHere[1].parameters[1].in = "body"
  /\ BuiltHere[1].parameters[2] = pathParams[1].parameters[1]
  /\ Len(BuiltHere[2].parameters) = 2
  /\ BuiltHere[2].parameters[1].prop = "id"
  /\ BuiltHere[2].parameters[2] = pathParams[1].parameters[1]

\* C14: extraction is total: whatever the document, malformed or incomplete,
\* getServices raises nothing.
C14_NeverRaises == pc # "raised"

\* The descriptors of the responses of the operation, in the order in which
\* the responses are declared.
InDeclarationOrder == ClassifyEach(op.responses[1])

\* The descriptors of a list that have a code.
WithCode(responses, code) == SelectSeq(responses, LAMBDA r : r.code = code)

\* C16: the classified responses are sorted ascending by code, and responses
\* with equal codes keep the order of their declaration; so every 2xx entry
\* comes before every entry with a code of 300 or more.
C16_AscendingTiesAsDeclared ==
  Declares =>
    /\ \A i, j \in 1..Len(operationResponses) :
         i < j => operationResponses[i].code <= operationResponses[j].code
    /\ Len(operationResponses) = Len(InDeclarationOrder)
    /\ \A r \in Range(InDeclarationOrder) :
         WithCode(operationResponses, r.code) = WithCode(InDeclarationOrder, r.code)
    /\ \A i, j \in 1..Len(operationResponses) :
         (/\ operationResponses[i].code >= 200
          /\ operationResponses[i].code < 300
          /\ operationResponses[j].code >= 300) => i < j

\* C18: the dedup removes only duplicates of what it keeps: every success
\* that is not among the results is equal, by the equality of the dedup, to
\* a success before it that is, and no two results are equal to each other.
C18_RemovedEqualKept ==
  (Declares /\ Successes # <<>>) =>
    /\ \A i \in 1..Len(Successes) :
         \/ Successes[i] \in Range(operation[1].results)
         \/ \E j \in 1..(i - 1) :
              /\ Successes[j] \in Range(operation[1].results)
              /\ areEqual(Successes[j], Successes[i])
    /\ \A a, b \in 1..Len(operation[1].results) :
         a < b => ~areEqual(operation[1].results[a], operation[1].results[b])

----------------------------------------------------------------------------
(* Properties of the operation name.                                       *)

\* The camel-cased final segment of the declared identifier.
FinalSegment == camelCase(CleanName(Last(Split(operationId[1], "/"))))

\* C15: the name of an operation is never a reserved word, whatever the path,
\* the method and the declared identifier; when the camel-cased final
\* segment of a declared identifier is not reserved, it is the name.
C15_NameNeverReserved ==
  pc = "named" =>
    /\ operationName[1] \notin javascriptReservedWords
    /\ (/\ operationId # <<>>
        /\ operationId[1] # <<>>
        /\ FinalSegment \notin javascriptReservedWords)
         => operationName[1] = FinalSegment

====
